---- MODULE Spec2Model ----
(***************************************************************************)
(* A model of src/src/risk/risk_engine.py: the RiskEngine object, its      *)
(* public operations and the pure computations behind them.                *)
(*                                                                         *)
(* Units.  Every fraction of NAV (weights, limits, thresholds, P&L         *)
(* percentages) is an integer number of thousandths: 0.03 is 30, -0.015    *)
(* is -15, 1.50 is 1500.  A computed quotient or product with a            *)
(* non-integral factor is an exact rational [n, d] with d >= 0; d = 0      *)
(* encodes the IEEE results of a division by zero ( n = 0 is NaN, n # 0    *)
(* is an infinity).  Rounding of binary floating point is not modelled.    *)
(***************************************************************************)
EXTENDS Integers, Sequences, FiniteSets, TLC

VARIABLES
    config,                 \* self.config with its .get defaults applied
    current_breaker_level,  \* self.current_breaker_level
    risk_alerts,            \* self.risk_alerts
    portfolio_history,      \* self.portfolio_history
    correlation_matrix,     \* self.correlation_matrix
    clock,                  \* the wall clock read by datetime.now()
    updates,                \* number of update_portfolio_history calls made
    ret,                    \* the last call: operation, arguments, result
    calls                   \* the update_portfolio_history calls under way

vars == <<config, current_breaker_level, risk_alerts, portfolio_history,
          correlation_matrix, clock, updates, ret, calls>>

engine == <<config, current_breaker_level, risk_alerts, portfolio_history,
            correlation_matrix>>

----------------------------------------------------------------------------
(* Program constants *)

HistoryCap == 252
DrawdownWindow == 30
Unit == 1000

(* Bounds of the model *)

MaxTicks == 31
SpecTicks == 2
MaxClock == 1
MaxLog == 2
EarlyMoves == 1
LateMoves == 2
HistoryCalls == 254
VarMoves == 3

----------------------------------------------------------------------------
(* Arithmetic on the float results that are not whole thousandths *)

Abs(x) == IF x < 0 THEN -x ELSE x

RECURSIVE GCD(_, _)
GCD(a, b) == IF b = 0 THEN a ELSE GCD(b, a % b)

\* The rational n/d in lowest terms (kept small for 32-bit evaluation); with
\* d = 0 only the sign of n is kept
Rat(n, d) ==
    IF d = 0 THEN [n |-> (IF n > 0 THEN 1 ELSE IF n < 0 THEN -1 ELSE 0), d |-> 0]
    ELSE LET g == GCD(Abs(n), d)
         IN  [n |-> n \div g, d |-> d \div g]

NaN == Rat(0, 0)

IsNaN(a) == a.n = 0 /\ a.d = 0

\* a / b as the float division computes it: b = 0 yields NaN or an infinity
Div(a, b) ==
    IF b = 0 THEN Rat(a, 0)
    ELSE IF b < 0 THEN Rat(-a, -b)
    ELSE Rat(a, b)

\* a <= b on floats: false as soon as one side is NaN
RLeq(a, b) == ~IsNaN(a) /\ ~IsNaN(b) /\ a.n * b.d <= b.n * a.d

RLess(a, b) == ~IsNaN(a) /\ ~IsNaN(b) /\ a.n * b.d < b.n * a.d

REq(a, b) == ~IsNaN(a) /\ ~IsNaN(b) /\ a.n * b.d = b.n * a.d

\* a fraction given in thousandths, as a rational
Thousandths(x) == Rat(x, Unit)

Sign(x) == IF x > 0 THEN 1 ELSE IF x < 0 THEN -1 ELSE 0

\* float multiplication: inf * 0 and NaN * x are NaN
RMul(a, b) ==
    IF a.d * b.d = 0 THEN Rat(Sign(a.n) * Sign(b.n), 0)
    ELSE Rat(a.n * b.n, a.d * b.d)

\* float addition: inf + (-inf) and NaN + x are NaN
RAdd(a, b) ==
    IF IsNaN(a) \/ IsNaN(b) THEN NaN
    ELSE IF a.d = 0 /\ b.d = 0 THEN (IF a.n = b.n THEN a ELSE NaN)
    ELSE IF a.d = 0 THEN a
    ELSE IF b.d = 0 THEN b
    ELSE Rat(a.n * b.d + b.n * a.d, a.d * b.d)

RNeg(a) == Rat(-a.n, a.d)

RSub(a, b) == RAdd(a, RNeg(b))

\* abs() of a float
RAbs(a) == Rat(Abs(a.n), a.d)

Whole(x) == Rat(x, 1)

----------------------------------------------------------------------------
(* Enumerations and value objects *)

NONE == "NONE"
LEVEL_1 == "LEVEL_1"
LEVEL_2 == "LEVEL_2"
LEVEL_3 == "LEVEL_3"

CircuitBreakerLevel == {NONE, LEVEL_1, LEVEL_2, LEVEL_3}

\* CircuitBreakerLevel.value
LevelValue(level) ==
    CASE level = NONE -> 0
      [] level = LEVEL_1 -> 1
      [] level = LEVEL_2 -> 2
      [] level = LEVEL_3 -> 3

\* The Portfolio dataclass; cash and daily_pnl are carried by no computation
\* of the engine and are left out.
Portfolio(positions, nav, timestamp, daily_pnl_pct) ==
    [positions |-> positions, nav |-> nav, timestamp |-> timestamp,
     daily_pnl_pct |-> daily_pnl_pct]

NoPositions == <<>>

\* How a call ends: it returns a value, or an exception leaves it
Returned(v) == [raised |-> FALSE, val |-> v]

Raised == [raised |-> TRUE]

----------------------------------------------------------------------------
(* Construction *)

get_default_config ==
    [single_name_limit |-> 30, sector_limit |-> 150, gross_limit |-> 1500,
     net_limit |-> 500, daily_loss_1 |-> -15, daily_loss_2 |-> -20,
     drawdown_30d |-> -120, var_confidence |-> 95, var_horizon |-> 1,
     correlation_threshold |-> 300]

\* dict.get(key, default) of a configuration given as a partial mapping
Get(cfg, key, default) == IF key \in DOMAIN cfg THEN cfg[key] ELSE default

\* RiskEngine.__init__: "config or defaults", then one .get per setting.  An
\* empty mapping is falsy, so it selects the default configuration too.
Construct(cfg) ==
    LET c == IF DOMAIN cfg = {} THEN get_default_config ELSE cfg
    IN  [single_name_limit |-> Get(c, "single_name_limit", 30),
         sector_limit |-> Get(c, "sector_limit", 150),
         gross_limit |-> Get(c, "gross_limit", 1500),
         net_limit |-> Get(c, "net_limit", 500),
         daily_loss_1 |-> Get(c, "daily_loss_1", -15),
         daily_loss_2 |-> Get(c, "daily_loss_2", -20),
         drawdown_30d |-> Get(c, "drawdown_30d", -120),
         var_confidence |-> Get(c, "var_confidence", 95),
         var_horizon |-> Get(c, "var_horizon", 1),
         correlation_threshold |-> Get(c, "correlation_threshold", 300)]

\* The configurations an engine is constructed with: none given, and a
\* partial one that moves the breaker thresholds and the position limits.
ConfigInputs ==
    { <<>>,
      [daily_loss_1 |-> -10, daily_loss_2 |-> -25, drawdown_30d |-> -125,
       single_name_limit |-> 50, gross_limit |-> 1600, net_limit |-> 800] }

EmptyMatrix == [empty |-> TRUE, cells |-> <<>>]

\* The callers of update_portfolio_history: whether their calls are
\* serialised by a wrapper, where each stands in the method (idle, before the
\* length test, before the slice, before the assignment) and the slice it
\* holds
NoCalls(serialised) ==
    [serialised |-> serialised,
     pc |-> [w \in {"w1", "w2"} |-> "idle"],
     sliced |-> [w \in {"w1", "w2"} |-> <<>>]]

Constructed ==
    /\ config \in { Construct(c) : c \in ConfigInputs }
    /\ current_breaker_level = NONE
    /\ risk_alerts = <<>>
    /\ portfolio_history = <<>>
    /\ correlation_matrix = EmptyMatrix

Init ==
    /\ Constructed
    /\ clock = 0
    /\ updates = 0
    /\ ret = [op |-> "__init__"]
    /\ calls = NoCalls(TRUE)

\* The engine as the methods see it
self ==
    [config |-> config, current_breaker_level |-> current_breaker_level,
     risk_alerts |-> risk_alerts, portfolio_history |-> portfolio_history,
     correlation_matrix |-> correlation_matrix]

----------------------------------------------------------------------------
(* update_portfolio_history *)

\* list[-k:]
Last(s, k) == IF Len(s) <= k THEN s ELSE SubSeq(s, Len(s) - k + 1, Len(s))

\* A buffer that drops the newest entry instead of the oldest
Recorded_KeepOldest(history, portfolio) ==
    LET appended == Append(history, portfolio)
    IN  IF Len(appended) > HistoryCap THEN SubSeq(appended, 1, HistoryCap)
        ELSE appended

Recorded(history, portfolio) ==
    LET appended == Append(history, portfolio)
    IN  IF Len(appended) > HistoryCap THEN Last(appended, HistoryCap)
        ELSE appended

\* The statements of update_portfolio_history, one at a time, as caller w
\* runs them: self.portfolio_history.append(portfolio)
WriterAppend(w, portfolio) ==
    /\ calls.pc[w] = "idle"
    /\ portfolio_history' = Append(portfolio_history, portfolio)
    /\ updates' = updates + 1
    /\ calls' = [calls EXCEPT !.pc[w] = "test"]
    /\ ret' = [op |-> "update_portfolio_history", portfolio |-> portfolio]
    /\ UNCHANGED <<config, current_breaker_level, risk_alerts,
                   correlation_matrix, clock>>

\* if len(self.portfolio_history) > 252
WriterTest(w) ==
    /\ calls.pc[w] = "test"
    /\ calls' = [calls EXCEPT !.pc[w] = IF Len(portfolio_history) > HistoryCap
                                         THEN "slice" ELSE "idle"]
    /\ UNCHANGED <<config, current_breaker_level, risk_alerts,
                   portfolio_history, correlation_matrix, clock, updates, ret>>

\* A slice that keeps one entry less
WriterSlice_Keeps251(w) ==
    /\ calls.pc[w] = "slice"
    /\ calls' = [calls EXCEPT !.pc[w] = "assign",
                              !.sliced[w] = Last(portfolio_history, HistoryCap - 1)]
    /\ UNCHANGED <<config, current_breaker_level, risk_alerts,
                   portfolio_history, correlation_matrix, clock, updates, ret>>

\* self.portfolio_history[-252:], a new list
WriterSlice(w) ==
    /\ calls.pc[w] = "slice"
    /\ calls' = [calls EXCEPT !.pc[w] = "assign",
                              !.sliced[w] = Last(portfolio_history, HistoryCap)]
    /\ UNCHANGED <<config, current_breaker_level, risk_alerts,
                   portfolio_history, correlation_matrix, clock, updates, ret>>

\* self.portfolio_history = <the slice>
WriterAssign(w) ==
    /\ calls.pc[w] = "assign"
    /\ portfolio_history' = calls.sliced[w]
    /\ calls' = [calls EXCEPT !.pc[w] = "idle", !.sliced[w] = <<>>]
    /\ UNCHANGED <<config, current_breaker_level, risk_alerts,
                   correlation_matrix, clock, updates, ret>>

update_portfolio_history(portfolio) ==
    /\ portfolio_history' = Recorded(portfolio_history, portfolio)
    /\ updates' = updates + 1
    /\ ret' = [op |-> "update_portfolio_history", portfolio |-> portfolio]
    /\ UNCHANGED <<calls, config, current_breaker_level, risk_alerts,
                   correlation_matrix, clock>>

----------------------------------------------------------------------------
(* check_breakers *)

RECURSIVE RunningMax(_, _, _)
\* the running maxima of entries lo..hi, each the larger of the entry and of
\* the maximum before it; the range is halved to keep the evaluation shallow
RunningMax(navs, lo, hi) ==
    IF lo = hi THEN <<navs[lo]>>
    ELSE LET mid == (lo + hi) \div 2
             left == RunningMax(navs, lo, mid)
             right == RunningMax(navs, mid + 1, hi)
             top == left[Len(left)]
         IN  left \o [k \in 1..Len(right) |->
                        IF right[k] > top THEN right[k] ELSE top]

\* pd.Series.expanding().max(): the running maxima of the first i entries
ExpandingMax(navs, i) == RunningMax(navs, 1, i)

\* the smaller of two floats, NaN skipped
SkipNaNMin(a, b) ==
    IF IsNaN(b) THEN a
    ELSE IF IsNaN(a) THEN b
    ELSE IF RLess(b, a) THEN b ELSE a

RECURSIVE MinOver(_, _, _)
MinOver(series, lo, hi) ==
    IF lo > hi THEN NaN
    ELSE IF lo = hi THEN series[lo]
    ELSE LET mid == (lo + hi) \div 2
         IN  SkipNaNMin(MinOver(series, lo, mid), MinOver(series, mid + 1, hi))

\* pd.Series.min() over positions 1..i: NaN entries are skipped, and the
\* result is NaN when nothing else is left
SeriesMin(series, i) == MinOver(series, 1, i)

\* The drawdown of the whole history instead of its 30 newest snapshots
calculate_30day_drawdown_WholeHistory(history) ==
    IF Len(history) < DrawdownWindow THEN Whole(0)
    ELSE LET nav_series == [i \in 1..Len(history) |-> history[i].nav]
             rolling_max == ExpandingMax(nav_series, Len(nav_series))
             drawdown == [i \in 1..Len(nav_series) |->
                            Div(nav_series[i] - rolling_max[i], rolling_max[i])]
         IN  SeriesMin(drawdown, Len(drawdown))

\* A minimum of 3 snapshots instead of 30
calculate_30day_drawdown_Min3(history) ==
    IF Len(history) < 3 THEN Whole(0)
    ELSE LET recent_history == Last(history, DrawdownWindow)
             nav_series == [i \in 1..Len(recent_history) |-> recent_history[i].nav]
             rolling_max == ExpandingMax(nav_series, Len(nav_series))
             drawdown == [i \in 1..Len(nav_series) |->
                            Div(nav_series[i] - rolling_max[i], rolling_max[i])]
         IN  SeriesMin(drawdown, Len(drawdown))

calculate_30day_drawdown(history) ==
    IF Len(history) < DrawdownWindow THEN Whole(0)
    ELSE LET recent_history == Last(history, DrawdownWindow)
             nav_series == [i \in 1..Len(recent_history) |-> recent_history[i].nav]
             rolling_max == ExpandingMax(nav_series, Len(nav_series))
             drawdown == [i \in 1..Len(nav_series) |->
                            Div(nav_series[i] - rolling_max[i], rolling_max[i])]
         IN  SeriesMin(drawdown, Len(drawdown))

\* The drawdown test moved in front of the daily-loss tests
BreakerLevel_DrawdownFirst(s, portfolio) ==
    IF RLeq(calculate_30day_drawdown(s.portfolio_history),
            Thousandths(s.config.drawdown_30d)) THEN LEVEL_3
    ELSE IF portfolio.daily_pnl_pct <= s.config.daily_loss_2 THEN LEVEL_2
    ELSE IF portfolio.daily_pnl_pct <= s.config.daily_loss_1 THEN LEVEL_1
    ELSE NONE

\* Exclusive comparisons in place of the inclusive ones
BreakerLevel_Exclusive(s, portfolio) ==
    IF portfolio.daily_pnl_pct <= s.config.daily_loss_2 THEN LEVEL_2
    ELSE IF portfolio.daily_pnl_pct < s.config.daily_loss_1 THEN LEVEL_1
    ELSE IF RLess(calculate_30day_drawdown(s.portfolio_history),
                  Thousandths(s.config.drawdown_30d)) THEN LEVEL_3
    ELSE NONE

\* A breaker that stays latched for one more evaluation once LEVEL_2 or
\* LEVEL_3 was active
BreakerLevel_Latched(s, portfolio) ==
    IF portfolio.daily_pnl_pct <= s.config.daily_loss_2 THEN LEVEL_2
    ELSE IF portfolio.daily_pnl_pct <= s.config.daily_loss_1 THEN LEVEL_1
    ELSE IF RLeq(calculate_30day_drawdown(s.portfolio_history),
                 Thousandths(s.config.drawdown_30d)) THEN LEVEL_3
    ELSE IF s.current_breaker_level \in {LEVEL_2, LEVEL_3}
         THEN s.current_breaker_level
    ELSE NONE

\* The level check_breakers returns for engine state s
BreakerLevel(s, portfolio) ==
    IF portfolio.daily_pnl_pct <= s.config.daily_loss_2 THEN LEVEL_2
    ELSE IF portfolio.daily_pnl_pct <= s.config.daily_loss_1 THEN LEVEL_1
    ELSE IF RLeq(calculate_30day_drawdown(s.portfolio_history),
                 Thousandths(s.config.drawdown_30d)) THEN LEVEL_3
    ELSE NONE

\* The snapshot archived by the check itself before it is classified
check_breakers_ArchivesFirst(portfolio) ==
    LET archived == Recorded(portfolio_history, portfolio)
        level == BreakerLevel([self EXCEPT !.portfolio_history = archived],
                              portfolio)
    IN  /\ current_breaker_level' = level
        /\ portfolio_history' = archived
        /\ ret' = [op |-> "check_breakers", portfolio |-> portfolio,
                   before |-> current_breaker_level, raised |-> FALSE,
                   val |-> level]
        /\ UNCHANGED <<calls, config, risk_alerts, correlation_matrix, clock, updates>>

check_breakers(portfolio) ==
    LET level == BreakerLevel(self, portfolio)
    IN  /\ current_breaker_level' = level
        /\ ret' = [op |-> "check_breakers", portfolio |-> portfolio,
                   before |-> current_breaker_level, raised |-> FALSE,
                   val |-> level]
        /\ UNCHANGED <<calls, config, risk_alerts, portfolio_history,
                       correlation_matrix, clock, updates>>

----------------------------------------------------------------------------
(* apply_circuit_breaker *)

\* A positions dict is the sequence of its items in insertion order, each
\* [symbol, weight], no symbol twice.
Item(symbol, weight) == [symbol |-> symbol, weight |-> weight]

SymbolsOf(positions) == {positions[i].symbol : i \in 1..Len(positions)}

RECURSIVE SumAbsWeights(_, _)
\* sum(abs(weight) for weight in positions.values()), over the first i items
SumAbsWeights(positions, i) ==
    IF i = 0 THEN 0
    ELSE SumAbsWeights(positions, i - 1) + Abs(positions[i].weight)

RECURSIVE SumWeights(_, _)
\* sum(positions.values()), over the first i items
SumWeights(positions, i) ==
    IF i = 0 THEN 0
    ELSE SumWeights(positions, i - 1) + positions[i].weight

GrossExposure(positions) == SumAbsWeights(positions, Len(positions))

NetExposure(positions) == SumWeights(positions, Len(positions))

\* for symbol in adjusted_positions: adjusted_positions[symbol] *= factor
Scaled(positions, factor) ==
    [i \in 1..Len(positions) |->
        Item(positions[i].symbol, RMul(Whole(positions[i].weight), factor))]

\* LEVEL_2 scaled by the net exposure instead of the gross exposure
Flattened_ByNet(positions) ==
    LET net_exposure == NetExposure(positions)
    IN  IF net_exposure > 0
        THEN Scaled(positions, Div(250, net_exposure))
        ELSE Scaled(positions, Whole(1))

\* The LEVEL_2 branch: flatten to 25% gross exposure
Flattened(positions) ==
    LET gross_exposure == GrossExposure(positions)
    IN  IF gross_exposure > 0
        THEN Scaled(positions, Div(250, gross_exposure))   \* 0.25 / gross
        ELSE Scaled(positions, Whole(1))

\* "Reduce all positions by 75%" read as a factor of 0.75
Adjusted_Keep75(positions, level) ==
    CASE level = LEVEL_1 -> Scaled(positions, Rat(1, 2))
      [] level = LEVEL_2 -> Flattened(positions)
      [] level = LEVEL_3 -> Scaled(positions, Rat(3, 4))
      [] OTHER -> Scaled(positions, Whole(1))

\* An if-chain whose fall-through halves the weights
Adjusted_FallThroughHalves(positions, level) ==
    CASE level = LEVEL_2 -> Flattened(positions)
      [] level = LEVEL_3 -> Scaled(positions, Rat(1, 4))
      [] OTHER -> Scaled(positions, Rat(1, 2))

\* The mapping apply_circuit_breaker returns for a copy of the positions
Adjusted(positions, level) ==
    CASE level = LEVEL_1 -> Scaled(positions, Rat(1, 2))
      [] level = LEVEL_2 -> Flattened(positions)
      [] level = LEVEL_3 -> Scaled(positions, Rat(1, 4))
      [] OTHER -> Scaled(positions, Whole(1))

\* The float weights of a positions dict as they stand
Weighed(positions) == Scaled(positions, Whole(1))

\* The scaling done in place, on the caller's dict (no .copy())
Applied_InPlace(portfolio, level) ==
    LET adjusted_positions == Adjusted(portfolio.positions, level)
    IN  [returned |-> adjusted_positions, argument |-> adjusted_positions]

\* What the call leaves behind: the returned dict, and the positions dict of
\* the caller's portfolio, which the method copied before scaling
Applied(portfolio, level) ==
    LET adjusted_positions == Adjusted(portfolio.positions, level)
    IN  [returned |-> adjusted_positions,
         argument |-> Weighed(portfolio.positions)]

\* The applied level written back to the engine
apply_circuit_breaker_StoresLevel(portfolio, level) ==
    LET out == Applied(portfolio, level)
    IN  /\ ret' = [op |-> "apply_circuit_breaker", portfolio |-> portfolio,
                   level |-> level, val |-> out.returned,
                   positions_after |-> out.argument]
        /\ current_breaker_level' = level
        /\ UNCHANGED <<calls, config, risk_alerts, portfolio_history,
                       correlation_matrix, clock, updates>>

apply_circuit_breaker(portfolio, level) ==
    LET out == Applied(portfolio, level)
    IN  /\ ret' = [op |-> "apply_circuit_breaker", portfolio |-> portfolio,
                   level |-> level, val |-> out.returned,
                   positions_after |-> out.argument]
        /\ UNCHANGED <<calls, config, current_breaker_level, risk_alerts,
                       portfolio_history, correlation_matrix, clock, updates>>

----------------------------------------------------------------------------
(* calculate_var *)

VarMinHistory == 30
VarMinReturns == 10

\* nav_series.pct_change().dropna(): the returns of positions 2..i, the NaN
\* ones (0/0) dropped
PctChange(navs, i) ==
    LET change == [k \in 1..(i - 1) |-> Div(navs[k + 1] - navs[k], navs[k])]
    IN  SelectSeq(change, LAMBDA c : ~IsNaN(c))

RECURSIVE LowestIn(_, _, _)
\* the first position of the smallest of values lo..hi
LowestIn(values, lo, hi) ==
    IF lo = hi THEN lo
    ELSE LET mid == (lo + hi) \div 2
             left == LowestIn(values, lo, mid)
             right == LowestIn(values, mid + 1, hi)
         IN  IF RLess(values[right], values[left]) THEN right ELSE left

\* the position of the smallest of the first i values
Lowest(values, i) == LowestIn(values, 1, i)

Without(values, i) ==
    SubSeq(values, 1, i - 1) \o SubSeq(values, i + 1, Len(values))

RECURSIVE Ranked(_, _)
\* the entry of 0-based rank k of the sorted values
Ranked(values, k) ==
    LET m == Lowest(values, Len(values))
    IN  IF k = 0 THEN values[m] ELSE Ranked(Without(values, m), k - 1)

\* numpy's _lerp: a + (b - a) * t, taken from the far end when t >= 0.5
Lerp(a, b, t) ==
    LET diff_b_a == RSub(b, a)
    IN  IF RLeq(Rat(1, 2), t) THEN RSub(b, RMul(diff_b_a, RSub(Whole(1), t)))
        ELSE RAdd(a, RMul(diff_b_a, t))

\* np.percentile(values, q), the default linear method, q = qnum / 100
Percentile(values, qnum) ==
    LET n == Len(values)
        virtual == qnum * (n - 1)          \* hundredths of an index
        lo == virtual \div 100
        hi == IF lo + 1 > n - 1 THEN n - 1 ELSE lo + 1
    IN  Lerp(Ranked(values, lo), Ranked(values, hi), Rat(virtual % 100, 100))

\* np.percentile raises ValueError for q outside [0, 100]
PercentileRaises(qnum) == qnum < 0 \/ qnum > 100

\* The 30-snapshot minimum taken for the 10-return minimum
calculate_var_MinHistory10(s) ==
    IF Len(s.portfolio_history) < VarMinReturns THEN Returned(Whole(0))
    ELSE LET recent == Last(s.portfolio_history, HistoryCap)
             nav_series == [i \in 1..Len(recent) |-> recent[i].nav]
             returns == PctChange(nav_series, Len(nav_series))
             var_percentile == 100 - s.config.var_confidence
         IN  IF Len(returns) < VarMinReturns THEN Returned(Whole(0))
             ELSE IF PercentileRaises(var_percentile) THEN Raised
             ELSE Returned(RAbs(Percentile(returns, var_percentile)))

\* var_confidence is held in hundredths (0.95 is 95), so var_percentile is
\* 100 - var_confidence
calculate_var(s) ==
    IF Len(s.portfolio_history) < VarMinHistory THEN Returned(Whole(0))
    ELSE LET recent == Last(s.portfolio_history, HistoryCap)
             nav_series == [i \in 1..Len(recent) |-> recent[i].nav]
             returns == PctChange(nav_series, Len(nav_series))
             var_percentile == 100 - s.config.var_confidence
         IN  IF Len(returns) < VarMinReturns THEN Returned(Whole(0))
             ELSE IF PercentileRaises(var_percentile) THEN Raised
             ELSE Returned(RAbs(Percentile(returns, var_percentile)))

\* The public operation
CalculateVar(portfolio) ==
    LET out == calculate_var(self)
    IN  /\ ret' = IF out.raised
                  THEN [op |-> "calculate_var", portfolio |-> portfolio,
                        raised |-> TRUE]
                  ELSE [op |-> "calculate_var", portfolio |-> portfolio,
                        raised |-> FALSE, val |-> out.val]
        /\ UNCHANGED <<calls, config, current_breaker_level, risk_alerts,
                       portfolio_history, correlation_matrix, clock, updates>>

----------------------------------------------------------------------------
(* check_limits *)

GREEN == "normal"
YELLOW == "warning"
ORANGE == "elevated"
RED == "critical"

RiskAlert(level, message, metric, current_value, limit_value, timestamp, action_required) ==
    [level |-> level, message |-> message, metric |-> metric,
     current_value |-> current_value, limit_value |-> limit_value,
     timestamp |-> timestamp, action_required |-> action_required]

\* The limit test made inclusive: a weight exactly at the limit alerts
SingleNameAlert_Inclusive(s, item, now) ==
    LET abs_weight == Abs(item.weight)
        limit == s.config.single_name_limit
    IN  IF abs_weight >= limit
        THEN <<RiskAlert(IF abs_weight * 10 > limit * 12 THEN RED ELSE ORANGE,
                         <<"Single name limit exceeded", item.symbol>>,
                         "single_name_concentration", abs_weight, limit,
                         now, TRUE)>>
        ELSE <<>>

\* The body of the loop of _check_single_name_limits for one item
SingleNameAlert(s, item, now) ==
    LET abs_weight == Abs(item.weight)
        limit == s.config.single_name_limit
    IN  IF abs_weight > limit
        THEN <<RiskAlert(IF abs_weight * 10 > limit * 12 THEN RED ELSE ORANGE,
                         <<"Single name limit exceeded", item.symbol>>,
                         "single_name_concentration", abs_weight, limit,
                         now, TRUE)>>
        ELSE <<>>

RECURSIVE SingleNameAlertsUpTo(_, _, _, _)
\* the loop of _check_single_name_limits over the first i items
SingleNameAlertsUpTo(s, positions, i, now) ==
    IF i = 0 THEN <<>>
    ELSE SingleNameAlertsUpTo(s, positions, i - 1, now)
         \o SingleNameAlert(s, positions[i], now)

check_single_name_limits(s, portfolio, now) ==
    SingleNameAlertsUpTo(s, portfolio.positions, Len(portfolio.positions), now)

\* The RED multiple of the single-name check (1.2) used for the gross check
check_exposure_limits_RedAt120(s, portfolio, now) ==
    LET gross_exposure == GrossExposure(portfolio.positions)
        net_exposure == NetExposure(portfolio.positions)
        gross == s.config.gross_limit
        net == s.config.net_limit
    IN  (IF gross_exposure > gross
         THEN <<RiskAlert(IF gross_exposure * 10 > gross * 12 THEN RED ELSE ORANGE,
                          <<"Gross exposure limit exceeded">>, "gross_exposure",
                          gross_exposure, gross, now, TRUE)>>
         ELSE <<>>)
        \o
        (IF Abs(net_exposure) > net
         THEN <<RiskAlert(ORANGE, <<"Net exposure limit exceeded">>,
                          "net_exposure", Abs(net_exposure), net, now, FALSE)>>
         ELSE <<>>)

\* The net test on the signed sum: a short-biased breach passes unnoticed
check_exposure_limits_SignedNet(s, portfolio, now) ==
    LET gross_exposure == GrossExposure(portfolio.positions)
        net_exposure == NetExposure(portfolio.positions)
        gross == s.config.gross_limit
        net == s.config.net_limit
    IN  (IF gross_exposure > gross
         THEN <<RiskAlert(IF gross_exposure * 10 > gross * 11 THEN RED ELSE ORANGE,
                          <<"Gross exposure limit exceeded">>, "gross_exposure",
                          gross_exposure, gross, now, TRUE)>>
         ELSE <<>>)
        \o
        (IF net_exposure > net
         THEN <<RiskAlert(ORANGE, <<"Net exposure limit exceeded">>,
                          "net_exposure", Abs(net_exposure), net, now, FALSE)>>
         ELSE <<>>)

check_exposure_limits(s, portfolio, now) ==
    LET gross_exposure == GrossExposure(portfolio.positions)
        net_exposure == NetExposure(portfolio.positions)
        gross == s.config.gross_limit
        net == s.config.net_limit
    IN  (IF gross_exposure > gross
         THEN <<RiskAlert(IF gross_exposure * 10 > gross * 11 THEN RED ELSE ORANGE,
                          <<"Gross exposure limit exceeded">>, "gross_exposure",
                          gross_exposure, gross, now, TRUE)>>
         ELSE <<>>)
        \o
        (IF Abs(net_exposure) > net
         THEN <<RiskAlert(ORANGE, <<"Net exposure limit exceeded">>,
                          "net_exposure", Abs(net_exposure), net, now, FALSE)>>
         ELSE <<>>)

VarLimit == 20

\* A VaR at the limit taken for a breach
VarAlert_Inclusive(var, now) ==
    LET var_limit == Thousandths(VarLimit)
    IN  IF RLeq(var_limit, var)
        THEN <<RiskAlert(IF RLess(RMul(var_limit, Rat(3, 2)), var) THEN RED
                         ELSE ORANGE,
                         <<"VaR limit exceeded", var>>, "value_at_risk",
                         var, var_limit, now, TRUE)>>
        ELSE <<>>

\* The alert of a VaR over the limit
VarAlert(var, now) ==
    LET var_limit == Thousandths(VarLimit)
    IN  IF RLess(var_limit, var)
        THEN <<RiskAlert(IF RLess(RMul(var_limit, Rat(3, 2)), var) THEN RED
                         ELSE ORANGE,
                         <<"VaR limit exceeded", var>>, "value_at_risk",
                         var, var_limit, now, TRUE)>>
        ELSE <<>>

\* The VaR check without its try/except
check_var_limits_NoTry(s, portfolio, now) ==
    LET out == calculate_var(s)
    IN  IF out.raised THEN Raised
        ELSE Returned(VarAlert(out.val, now))

\* try: ... except Exception: a warning is logged and no alert is made
check_var_limits(s, portfolio, now) ==
    LET out == calculate_var(s)
    IN  IF out.raised THEN Returned(<<>>)
        ELSE Returned(VarAlert(out.val, now))

\* A correlation matrix holds, for each pair of columns, the square of the
\* coefficient (the check only reads absolute values); NaN where pandas
\* yields NaN.  DataFrame.empty: no columns.
RECURSIVE MaxSquare(_, _)
\* DataFrame.abs().max().max() over the first i cells, NaN cells skipped
MaxSquare(cells, i) ==
    IF i = 0 THEN NaN
    ELSE LET m == MaxSquare(cells, i - 1)
         IN  IF IsNaN(cells[i]) THEN m
             ELSE IF IsNaN(m) THEN cells[i]
             ELSE IF RLess(m, cells[i]) THEN cells[i] ELSE m

\* |c| > threshold, for a coefficient known by its square
AbsExceeds(square, threshold) ==
    /\ ~IsNaN(square)
    /\ \/ threshold < 0
       \/ RLess(RMul(Thousandths(threshold), Thousandths(threshold)), square)

check_correlation_limits(s, portfolio, now) ==
    IF ~s.correlation_matrix.empty
    THEN LET cells == s.correlation_matrix.cells
             max_correlation == MaxSquare(cells, Len(cells))
             correlation_threshold == s.config.correlation_threshold
         IN  IF AbsExceeds(max_correlation, correlation_threshold)
             THEN <<RiskAlert(ORANGE, <<"High correlation detected", max_correlation>>,
                              "strategy_correlation",
                              [squared |-> max_correlation],
                              correlation_threshold, now, FALSE)>>
             ELSE <<>>
    ELSE <<>>

RECURSIVE FirstPerMetric(_, _)
\* the first i alerts with the repeats of a metric dropped
FirstPerMetric(alerts, i) ==
    IF i = 0 THEN <<>>
    ELSE LET before == FirstPerMetric(alerts, i - 1)
         IN  IF \E j \in 1..Len(before) : before[j].metric = alerts[i].metric
             THEN before
             ELSE Append(before, alerts[i])

\* The list deduplicated by metric before it is returned
Alerts_Deduplicated(s, portfolio, now) ==
    LET var_alerts == check_var_limits(s, portfolio, now)
        all == check_single_name_limits(s, portfolio, now)
               \o check_exposure_limits(s, portfolio, now)
               \o var_alerts.val
               \o check_correlation_limits(s, portfolio, now)
    IN  IF var_alerts.raised THEN Raised
        ELSE Returned(FirstPerMetric(all, Len(all)))

\* The alerts one check_limits call returns, unless an exception leaves one
\* of the four checks
Alerts(s, portfolio, now) ==
    LET var_alerts == check_var_limits(s, portfolio, now)
    IN  IF var_alerts.raised THEN Raised
        ELSE Returned(check_single_name_limits(s, portfolio, now)
                      \o check_exposure_limits(s, portfolio, now)
                      \o var_alerts.val
                      \o check_correlation_limits(s, portfolio, now))

\* The log overwritten with the alerts of the call
check_limits_ReplacesLog(portfolio) ==
    LET alerts == Alerts(self, portfolio, clock)
    IN  /\ risk_alerts' = IF alerts.raised THEN risk_alerts ELSE alerts.val
        /\ ret' = IF alerts.raised
                  THEN [op |-> "check_limits", portfolio |-> portfolio,
                        raised |-> TRUE]
                  ELSE [op |-> "check_limits", portfolio |-> portfolio,
                        raised |-> FALSE, val |-> alerts.val]
        /\ UNCHANGED <<calls, config, current_breaker_level, portfolio_history,
                       correlation_matrix, clock, updates>>

\* An alert that is already in the log is not raised again
check_limits_SkipsLogged(portfolio) ==
    LET alerts == Alerts(self, portfolio, clock)
        fresh == SelectSeq(alerts.val,
                           LAMBDA a : \A i \in 1..Len(risk_alerts) :
                                         \/ risk_alerts[i].metric # a.metric
                                         \/ risk_alerts[i].message # a.message)
    IN  /\ risk_alerts' = IF alerts.raised THEN risk_alerts
                          ELSE risk_alerts \o fresh
        /\ ret' = IF alerts.raised
                  THEN [op |-> "check_limits", portfolio |-> portfolio,
                        raised |-> TRUE]
                  ELSE [op |-> "check_limits", portfolio |-> portfolio,
                        raised |-> FALSE, val |-> fresh]
        /\ UNCHANGED <<calls, config, current_breaker_level, portfolio_history,
                       correlation_matrix, clock, updates>>

\* The checked snapshot archived by check_limits itself
check_limits_Archives(portfolio) ==
    LET alerts == Alerts(self, portfolio, clock)
    IN  /\ risk_alerts' = IF alerts.raised THEN risk_alerts
                          ELSE risk_alerts \o alerts.val
        /\ portfolio_history' = Recorded(portfolio_history, portfolio)
        /\ ret' = IF alerts.raised
                  THEN [op |-> "check_limits", portfolio |-> portfolio,
                        raised |-> TRUE]
                  ELSE [op |-> "check_limits", portfolio |-> portfolio,
                        raised |-> FALSE, val |-> alerts.val]
        /\ UNCHANGED <<calls, config, current_breaker_level, correlation_matrix,
                       clock, updates>>

check_limits(portfolio) ==
    LET alerts == Alerts(self, portfolio, clock)
    IN  /\ risk_alerts' = IF alerts.raised THEN risk_alerts
                          ELSE risk_alerts \o alerts.val
        /\ ret' = IF alerts.raised
                  THEN [op |-> "check_limits", portfolio |-> portfolio,
                        raised |-> TRUE]
                  ELSE [op |-> "check_limits", portfolio |-> portfolio,
                        raised |-> FALSE, val |-> alerts.val]
        /\ UNCHANGED <<calls, config, current_breaker_level, portfolio_history,
                       correlation_matrix, clock, updates>>

----------------------------------------------------------------------------
(* update_correlation_matrix *)

\* A strategy_returns argument is either a frame (column names, and rows of
\* whole returns) or something .corr() cannot be called on.
Frame(columns, rows) == [valid |-> TRUE, columns |-> columns, rows |-> rows]

NotAFrame == [valid |-> FALSE]

RECURSIVE ColumnSum(_, _, _)
ColumnSum(rows, c, k) ==
    IF k = 0 THEN 0 ELSE ColumnSum(rows, c, k - 1) + rows[k][c]

RECURSIVE CoMoment(_, _, _, _)
\* the sum over the first k rows of (n x - sum x)(n y - sum y), n = Len(rows)
CoMoment(rows, a, b, k) ==
    IF k = 0 THEN 0
    ELSE CoMoment(rows, a, b, k - 1)
         + (Len(rows) * rows[k][a] - ColumnSum(rows, a, Len(rows)))
           * (Len(rows) * rows[k][b] - ColumnSum(rows, b, Len(rows)))

\* The square of the Pearson coefficient of columns a and b; 0/0 = NaN when a
\* column is constant or there are fewer than two rows
PearsonSquared(rows, a, b) ==
    LET n == Len(rows)
        sab == CoMoment(rows, a, b, n)
    IN  Div(sab * sab, CoMoment(rows, a, a, n) * CoMoment(rows, b, b, n))

\* DataFrame.corr(): one cell per pair of columns, row by row
Corr(frame) ==
    LET k == Len(frame.columns)
    IN  [empty |-> k = 0,
         cells |-> [i \in 1..(k * k) |->
                      PearsonSquared(frame.rows, ((i - 1) \div k) + 1,
                                     ((i - 1) % k) + 1)]]

\* A failing computation that clears the stored matrix
update_correlation_matrix_ClearsOnFailure(strategy_returns) ==
    /\ correlation_matrix' =
         IF strategy_returns.valid THEN Corr(strategy_returns)
         ELSE EmptyMatrix
    /\ ret' = [op |-> "update_correlation_matrix",
               strategy_returns |-> strategy_returns, raised |-> FALSE]
    /\ UNCHANGED <<calls, config, current_breaker_level, risk_alerts,
                   portfolio_history, clock, updates>>

\* .corr() raises on what is not a frame; the except clause logs and returns
update_correlation_matrix(strategy_returns) ==
    /\ correlation_matrix' =
         IF strategy_returns.valid THEN Corr(strategy_returns)
         ELSE correlation_matrix
    /\ ret' = [op |-> "update_correlation_matrix",
               strategy_returns |-> strategy_returns, raised |-> FALSE]
    /\ UNCHANGED <<calls, config, current_breaker_level, risk_alerts,
                   portfolio_history, clock, updates>>

----------------------------------------------------------------------------
(* detect_regime *)

RegimeWindow == 20

\* A market_data argument is a frame with a 'close' column of prices, a frame
\* without that column, or something that cannot be indexed by 'close'.
MarketData(close) == [valid |-> TRUE, has_close |-> TRUE, close |-> close]

NoCloseColumn == [valid |-> TRUE, has_close |-> FALSE]

NotMarketData == [valid |-> FALSE]

\* Series.pct_change(): NaN at the first position, then p[k] / p[k-1] - 1
Returns(close) ==
    [k \in 1..Len(close) |->
        IF k = 1 THEN NaN ELSE Div(close[k] - close[k - 1], close[k - 1])]

RECURSIVE RSum(_, _, _)
\* the sum of values lo..hi
RSum(values, lo, hi) ==
    IF lo > hi THEN Whole(0)
    ELSE IF lo = hi THEN values[lo]
    ELSE LET mid == (lo + hi) \div 2
         IN  RAdd(RSum(values, lo, mid), RSum(values, mid + 1, hi))

\* The last window of rolling(20): the sum and the sum of squares of the last
\* 20 returns; a window that is short or holds a NaN or an infinity has no
\* value (min_periods is the window length)
LastWindow(returns) ==
    LET n == Len(returns)
        window == SubSeq(returns, n - RegimeWindow + 1, n)
    IN  IF n < RegimeWindow \/ \E k \in 1..RegimeWindow : window[k].d = 0
        THEN [nan |-> TRUE]
        ELSE [nan |-> FALSE,
              sum |-> RSum(window, 1, RegimeWindow),
              squares |-> RSum([k \in 1..RegimeWindow |->
                                  RMul(window[k], window[k])], 1, RegimeWindow)]

\* 19 * 20 times the sample variance (ddof = 1) of the window
SpreadOf(w) == RSub(RMul(Whole(RegimeWindow), w.squares), RMul(w.sum, w.sum))

\* A score is held as its signed square, sign(x) * x^2, which orders scores
\* as the scores themselves are ordered and is a rational where the score is
\* a square root: 0.1 is 1/100, 0.20 is 1/25, NaN and the infinities are as
\* for every float.

\* rolling(20).mean() / rolling(20).std() at the last position: the mean is
\* sum / 20, the variance (ddof = 1) is spread / 380
TrendScore(w) ==
    IF w.nan THEN NaN
    ELSE LET num == RMul(Whole(19), RMul(w.sum, RAbs(w.sum)))
             den == RMul(Whole(RegimeWindow), SpreadOf(w))
         IN  Rat(num.n * den.d, num.d * den.n)

\* rolling(20).std() * sqrt(252) at the last position
VolScore(w) ==
    IF w.nan THEN NaN ELSE RMul(Rat(252, 380), SpreadOf(w))

Regimes == {"TREND_LOW_VOL", "TREND_HIGH_VOL", "CHOP_LOW_VOL", "CHOP_HIGH_VOL"}

\* A trend score of exactly 0.1 taken for a trend
RegimeLabel_InclusiveTrend(current_trend, current_vol) ==
    LET trend_threshold == Rat(1, 100)
        vol_threshold == Rat(1, 25)
    IN  IF RLeq(trend_threshold, current_trend) /\ RLess(current_vol, vol_threshold)
        THEN "TREND_LOW_VOL"
        ELSE IF RLeq(trend_threshold, current_trend)
                /\ RLeq(vol_threshold, current_vol)
        THEN "TREND_HIGH_VOL"
        ELSE IF RLess(current_trend, trend_threshold)
                /\ RLess(current_vol, vol_threshold)
        THEN "CHOP_LOW_VOL"
        ELSE "CHOP_HIGH_VOL"

\* The if / elif chain over the two latest scores
RegimeLabel(current_trend, current_vol) ==
    LET trend_threshold == Rat(1, 100)
        vol_threshold == Rat(1, 25)
    IN  IF RLess(trend_threshold, current_trend) /\ RLess(current_vol, vol_threshold)
        THEN "TREND_LOW_VOL"
        ELSE IF RLess(trend_threshold, current_trend)
                /\ RLeq(vol_threshold, current_vol)
        THEN "TREND_HIGH_VOL"
        ELSE IF RLeq(current_trend, trend_threshold)
                /\ RLess(current_vol, vol_threshold)
        THEN "CHOP_LOW_VOL"
        ELSE "CHOP_HIGH_VOL"

\* The body of the try block: market_data['close'] raises on what is not a
\* frame or has no such column; an empty series scores 0 and 0
Classified(market_data) ==
    IF ~market_data.valid THEN Raised
    ELSE IF ~market_data.has_close THEN Raised
    ELSE IF market_data.close = <<>>
    THEN Returned(RegimeLabel(Whole(0), Whole(0)))
    ELSE LET w == LastWindow(Returns(market_data.close))
         IN  Returned(RegimeLabel(TrendScore(w), VolScore(w)))

\* except Exception: "UNKNOWN"
Regime(market_data) ==
    LET out == Classified(market_data)
    IN  IF out.raised THEN Returned("UNKNOWN") ELSE out

detect_regime(market_data) ==
    LET out == Regime(market_data)
    IN  /\ ret' = IF out.raised
                  THEN [op |-> "detect_regime", market_data |-> market_data,
                        raised |-> TRUE]
                  ELSE [op |-> "detect_regime", market_data |-> market_data,
                        raised |-> FALSE, val |-> out.val]
        /\ UNCHANGED <<calls, config, current_breaker_level, risk_alerts,
                       portfolio_history, correlation_matrix, clock, updates>>

\* The classification of two given scores (the chain alone)
classify(current_trend, current_vol) ==
    /\ ret' = [op |-> "classify", current_trend |-> current_trend,
               current_vol |-> current_vol, raised |-> FALSE,
               val |-> RegimeLabel(current_trend, current_vol)]
    /\ UNCHANGED <<calls, config, current_breaker_level, risk_alerts,
                   portfolio_history, correlation_matrix, clock, updates>>

----------------------------------------------------------------------------
(* get_risk_summary *)

OneHour == 1
TopCount == 5

RECURSIVE InsertByAbs(_, _)
\* item put into a list sorted by |weight|, largest first, behind its equals
InsertByAbs(sorted, item) ==
    IF sorted = <<>> THEN <<item>>
    ELSE IF Abs(Head(sorted).weight) >= Abs(item.weight)
         THEN <<Head(sorted)>> \o InsertByAbs(Tail(sorted), item)
         ELSE <<item>> \o sorted

RECURSIVE SortedByAbs(_, _)
\* sorted(positions.items(), key=lambda x: abs(x[1]), reverse=True)
SortedByAbs(positions, i) ==
    IF i = 0 THEN <<>>
    ELSE InsertByAbs(SortedByAbs(positions, i - 1), positions[i])

\* list[:k]
First(s, k) == IF Len(s) <= k THEN s ELSE SubSeq(s, 1, k)

\* A value at its limit reported as outside the limit
WithinLimits_Strict(s, positions) ==
    [gross |-> GrossExposure(positions) < s.config.gross_limit,
     net |-> Abs(NetExposure(positions)) < s.config.net_limit,
     single_name |->
        \A i \in 1..Len(positions) :
            Abs(positions[i].weight) < s.config.single_name_limit]

\* the 'within_limits' entry of the summary
WithinLimits(s, positions) ==
    [gross |-> GrossExposure(positions) <= s.config.gross_limit,
     net |-> Abs(NetExposure(positions)) <= s.config.net_limit,
     single_name |->
        \A i \in 1..Len(positions) :
            Abs(positions[i].weight) <= s.config.single_name_limit]

RiskSummary(s, portfolio, now) ==
    LET positions == portfolio.positions
        gross_exposure == GrossExposure(positions)
        net_exposure == NetExposure(positions)
    IN  [timestamp |-> now,
         nav |-> portfolio.nav,
         daily_pnl_pct |-> portfolio.daily_pnl_pct,
         gross_exposure |-> gross_exposure,
         net_exposure |-> net_exposure,
         num_positions |-> Len(positions),
         top_positions |-> First(SortedByAbs(positions, Len(positions)), TopCount),
         var_95_1day |-> calculate_var(s).val,
         circuit_breaker_level |-> LevelValue(s.current_breaker_level),
         active_alerts |->
            Cardinality({i \in 1..Len(s.risk_alerts) :
                            s.risk_alerts[i].timestamp > now - OneHour}),
         position_limits |->
            [single_name |-> s.config.single_name_limit,
             sector |-> s.config.sector_limit,
             gross |-> s.config.gross_limit,
             net |-> s.config.net_limit],
         within_limits |-> WithinLimits(s, positions)]

\* calculate_var is called outside any try: its exception leaves the call
get_risk_summary(portfolio) ==
    /\ ret' = IF calculate_var(self).raised
              THEN [op |-> "get_risk_summary", portfolio |-> portfolio,
                    raised |-> TRUE]
              ELSE [op |-> "get_risk_summary", portfolio |-> portfolio,
                    raised |-> FALSE,
                    val |-> RiskSummary(self, portfolio, clock)]
    /\ UNCHANGED <<calls, config, current_breaker_level, risk_alerts,
                   portfolio_history, correlation_matrix, clock, updates>>

----------------------------------------------------------------------------
(* The callers *)

Symbols == {"AAA", "BBB"}

\* Every positions dict of at most two symbols, in either insertion order,
\* with weights from the given set
BooksOver(weights) ==
    {<<>>}
    \cup {<<Item(a, w)>> : a \in Symbols, w \in weights}
    \cup {<<Item(x[1], x[3]), Item(x[2], x[4])>> :
            x \in {y \in Symbols \X Symbols \X weights \X weights : y[1] # y[2]}}

\* Weights around the single-name limit 0.03 and its 1.2 multiple, and
\* weights whose sums lie at and beyond the gross and net limits
Weights == {-800, -37, 0, 20, 30, 31, 36, 37, 500, 700, 850}

PositionBooks == BooksOver(Weights)

\* Long, short and flat weights for the breaker response
AdjustedBooks == BooksOver({-800, -30, 0, 36, 850})

ApplyCall ==
    \E positions \in AdjustedBooks, level \in CircuitBreakerLevel :
        apply_circuit_breaker(Portfolio(positions, 100, updates, 0), level)

NextPositions == ApplyCall

SpecPositions == Init /\ [][NextPositions]_vars

\* The evaluations of an engine whose alert log is still empty
FirstLimitsCall ==
    /\ risk_alerts = <<>>
    /\ \E positions \in PositionBooks :
          check_limits(Portfolio(positions, 100, updates, 0))

\* the summary of a book asked for before any alert is logged
LimitsSummary ==
    /\ risk_alerts = <<>>
    /\ \E positions \in PositionBooks :
          get_risk_summary(Portfolio(positions, 100, updates, 0))

NextLimits == FirstLimitsCall \/ LimitsSummary

SpecLimits == Init /\ [][NextLimits]_vars

Navs == {100, 88, 0}

PnlPcts == {-25, -20, -15, 0}

\* The snapshot the accounting component hands over at its k-th tick
SnapshotAt(k) == Portfolio(NoPositions, 100 + (k % 7), k, 0)

\* One writer records one snapshot after the other, 2 more than the buffer holds
RecordNext ==
    /\ updates < HistoryCalls
    /\ update_portfolio_history(SnapshotAt(updates + 1))

NextHistory == RecordNext

SpecHistory == Init /\ [][NextHistory]_vars

\* Two callers of update_portfolio_history, with or without a wrapper that
\* lets a call start only when no other is under way; the second caller
\* joins once the buffer is full.
InitWriters ==
    /\ Constructed
    /\ clock = 0
    /\ updates = 0
    /\ ret = [op |-> "__init__"]
    /\ calls \in { NoCalls(serialised) : serialised \in BOOLEAN }

Quiet == \A w \in {"w1", "w2"} : calls.pc[w] = "idle"

NextWriters ==
    \E w \in {"w1", "w2"} :
        \/ /\ updates < HistoryCalls
           /\ w = "w2" => updates >= HistoryCap
           /\ calls.serialised => Quiet
           /\ WriterAppend(w, SnapshotAt(updates + 1))
        \/ WriterTest(w)
        \/ WriterSlice(w)
        \/ WriterAssign(w)

SpecWriters == InitWriters /\ [][NextWriters]_vars

\* The NAV is flat from one snapshot to the next, except at the first ticks
\* and at the last ones
MayMove(k, early) == k <= 1 + early \/ k > MaxTicks - LateMoves

Archive(navs, early, ticks) ==
    /\ updates < ticks
    /\ \E nav \in navs :
         /\ IF MayMove(updates + 1, early) THEN TRUE
            ELSE nav = portfolio_history[Len(portfolio_history)].nav
         /\ update_portfolio_history(Portfolio(NoPositions, nav, updates + 1, 0))

\* A tick of the risk loop: the snapshot is archived, then classified
ArchiveTick == Archive(Navs, EarlyMoves, MaxTicks)

BreakerTick ==
    \E pnl \in PnlPcts :
        check_breakers(Portfolio(NoPositions, 100, updates, pnl))

NextBreakers == ArchiveTick \/ BreakerTick

SpecBreakers == Init /\ [][NextBreakers]_vars

\* The whole engine under one sequential caller, over its first ticks: the
\* caller archives a few snapshots, uses an empty book and one over every
\* single-name limit, and hands over return frames of two strategies.
CalmNavs == {100, 88}

Books == {<<>>, <<Item("AAA", 60)>>}

Frames ==
    { NotAFrame,
      Frame(<<"pillar_a", "pillar_c">>, << <<1, 1>>, <<-1, 1>>, <<1, -1>>, <<-1, -1>> >>) }

\* datetime.now() moves on between two calls
Tick ==
    /\ clock < MaxClock
    /\ clock' = clock + 1
    /\ UNCHANGED <<calls, config, current_breaker_level, risk_alerts, portfolio_history,
                   correlation_matrix, updates, ret>>

HistoryCall == Archive(CalmNavs, 0, SpecTicks)

BreakersCall ==
    \E pnl \in {-20, 0} :
        check_breakers(Portfolio(<<>>, 100, updates, pnl))

LimitsCall ==
    \E positions \in Books :
        /\ check_limits(Portfolio(positions, 100, updates, 0))
        /\ Len(risk_alerts') <= MaxLog

AdjustCall ==
    \E level \in CircuitBreakerLevel :
        apply_circuit_breaker(Portfolio(<<Item("AAA", 60)>>, 100, updates, 0), level)

CorrelationCall ==
    \E strategy_returns \in Frames :
        update_correlation_matrix(strategy_returns)

SummaryCall ==
    get_risk_summary(Portfolio(<<Item("AAA", 60)>>, 100, updates, 0))

VarCall ==
    CalculateVar(Portfolio(<<Item("AAA", 60)>>, 100, updates, 0))

Next ==
    \/ Tick
    \/ HistoryCall
    \/ BreakersCall
    \/ LimitsCall
    \/ AdjustCall
    \/ CorrelationCall
    \/ SummaryCall
    \/ VarCall

Spec == Init /\ [][Next]_vars

\* The risk loop of an engine whose alert log is still empty: the strategy
\* layer hands over its return frames before the first tick, the NAV moves
\* over the first ticks and is flat afterwards, and each snapshot may be
\* checked against the limits and the breakers; the checked snapshot is the
\* caller's current one, archived or not.
ArchiveEarly(navs, early, ticks) ==
    /\ updates < ticks
    /\ \E nav \in navs :
         /\ IF updates <= early THEN TRUE
            ELSE nav = portfolio_history[Len(portfolio_history)].nav
         /\ update_portfolio_history(Portfolio(NoPositions, nav, updates + 1, 0))

AlertBooks ==
    { <<>>,
      <<Item("AAA", 20)>>,
      <<Item("AAA", 60)>>,
      <<Item("AAA", -800), Item("BBB", 850)>>,
      <<Item("AAA", 850), Item("BBB", 850)>> }

AlertsArchive ==
    /\ risk_alerts = <<>>
    /\ ArchiveEarly(CalmNavs, VarMoves, MaxTicks)

AlertsCorrelation ==
    /\ risk_alerts = <<>>
    /\ updates = 0
    /\ CorrelationCall

AlertsLimits ==
    /\ risk_alerts = <<>>
    /\ \E positions \in AlertBooks :
          check_limits(Portfolio(positions, 100, updates, 0))

AlertsBreakers ==
    /\ risk_alerts = <<>>
    /\ check_breakers(Portfolio(NoPositions, 100, updates, 0))

AlertsVar ==
    /\ risk_alerts = <<>>
    /\ CalculateVar(Portfolio(NoPositions, 100, updates, 0))

NextAlerts ==
    \/ AlertsArchive
    \/ AlertsCorrelation
    \/ AlertsLimits
    \/ AlertsBreakers
    \/ AlertsVar

SpecAlerts == Init /\ [][NextAlerts]_vars

\* The engine over NAV paths that move the VaR across its limit: a NAV of 600
\* that falls once or twice in its first three snapshots, and a NAV of 1 that
\* triples tick after tick; after that the NAV is flat.  The confidence is
\* the default one or 0.50.
InitVar ==
    /\ config \in { Construct(c) : c \in {<<>>, [var_confidence |-> 50]} }
    /\ current_breaker_level = NONE
    /\ risk_alerts = <<>>
    /\ portfolio_history = <<>>
    /\ correlation_matrix = EmptyMatrix
    /\ clock = 0
    /\ updates = 0
    /\ ret = [op |-> "__init__"]
    /\ calls = NoCalls(TRUE)

\* the NAV the accounting component may report after a NAV of last, in the
\* snapshot that follows `made` snapshots
NavAfter(last, made) ==
    {last}
    \cup (IF made <= 2 /\ last >= 480
          THEN {nav \in {580, 576, 570, 540, 480} : nav < last} ELSE {})
    \cup (IF made <= 16 /\ last = 3 ^ (made - 1) THEN {3 * last} ELSE {})

VarArchive ==
    /\ risk_alerts = <<>>
    /\ updates < MaxTicks
    /\ \E nav \in (IF updates = 0 THEN {600, 1}
                   ELSE NavAfter(portfolio_history[Len(portfolio_history)].nav,
                                 updates)) :
          update_portfolio_history(Portfolio(NoPositions, nav, updates + 1, 0))

VarLimits ==
    /\ risk_alerts = <<>>
    /\ check_limits(Portfolio(NoPositions, 100, updates, 0))

VarEstimate ==
    /\ risk_alerts = <<>>
    /\ CalculateVar(Portfolio(NoPositions, 100, updates, 0))

NextVar ==
    \/ VarArchive
    \/ VarLimits
    \/ VarEstimate

SpecVar == InitVar /\ [][NextVar]_vars

\* The engine under a caller that checks nothing: __init__ takes whatever
\* mapping it is given (a confidence given in percent, limits and thresholds
\* of the wrong sign), the accounting component reports a zero NAV, the
\* strategy layer hands over a frame without variation or no frame, and the
\* data pipeline delivers short, flat, broken or missing price series.
UncheckedConfigs ==
    { <<>>,
      [var_confidence |-> 9500],
      [single_name_limit |-> -30, gross_limit |-> 0, net_limit |-> -500,
       daily_loss_1 |-> 15, daily_loss_2 |-> 20, drawdown_30d |-> 120] }

InitUnchecked ==
    /\ config \in { Construct(c) : c \in UncheckedConfigs }
    /\ current_breaker_level = NONE
    /\ risk_alerts = <<>>
    /\ portfolio_history = <<>>
    /\ correlation_matrix = EmptyMatrix
    /\ clock = 0
    /\ updates = 0
    /\ ret = [op |-> "__init__"]
    /\ calls = NoCalls(TRUE)

Doubling == [k \in 1..(RegimeWindow + 1) |-> 2 ^ (k - 1)]

\* the price series: none, three prices, doubling, halving, alternating
\* between 1 and 2, flat, and flat with one price of zero
MarketInputs ==
    { NotMarketData, NoCloseColumn, MarketData(<<>>), MarketData(<<1, 2, 4>>),
      MarketData(Doubling),
      MarketData([k \in 1..(RegimeWindow + 1) |-> 2 ^ (RegimeWindow + 1 - k)]),
      MarketData([k \in 1..(RegimeWindow + 1) |-> 1 + ((k + 1) % 2)]),
      MarketData([k \in 1..(RegimeWindow + 1) |-> 100]),
      MarketData([k \in 1..(RegimeWindow + 1) |-> IF k = 5 THEN 0 ELSE 100]) }

DegenerateFrames ==
    { NotAFrame,
      Frame(<<"pillar_a", "pillar_c">>, << <<1, 1>>, <<1, 1>> >>),
      Frame(<<"pillar_a", "pillar_b", "pillar_c">>,
            << <<1, 1, 0>>, <<-1, 1, 1>>, <<1, -1, 0>>, <<-1, -1, 1>> >>) }

UncheckedArchive ==
    /\ risk_alerts = <<>>
    /\ ArchiveEarly({100, 0}, EarlyMoves, MaxTicks)

UncheckedCorrelation ==
    /\ risk_alerts = <<>>
    /\ updates = 0
    /\ \E strategy_returns \in DegenerateFrames :
          update_correlation_matrix(strategy_returns)

UncheckedLimits ==
    /\ risk_alerts = <<>>
    /\ \E positions \in Books :
          check_limits(Portfolio(positions, 100, updates, 0))

UncheckedBreakers ==
    /\ risk_alerts = <<>>
    /\ \E pnl \in {-20, 0} :
          check_breakers(Portfolio(NoPositions, 100, updates, pnl))

\* the price series are classified before the first tick
UncheckedRegime ==
    /\ updates = 0
    /\ \E market_data \in MarketInputs : detect_regime(market_data)

NextUnchecked ==
    \/ UncheckedArchive
    \/ UncheckedCorrelation
    \/ UncheckedLimits
    \/ UncheckedBreakers
    \/ UncheckedRegime

SpecUnchecked == InitUnchecked /\ [][NextUnchecked]_vars

\* The classification over latest scores below, at and above the two
\* thresholds, infinite and NaN: trend scores -inf, -1, 0, 0.09, 0.1, 0.11,
\* 1 and +inf, volatility scores 0, 0.1, 0.19, 0.20, 0.21, 1 and +inf.
ScoresClassified ==
    \E current_trend \in {NaN, Rat(-1, 0), Whole(-1), Whole(0), Rat(81, 10000),
                          Rat(1, 100), Rat(121, 10000), Whole(1), Rat(1, 0)} :
      \E current_vol \in {NaN, Whole(0), Rat(1, 100), Rat(361, 10000),
                          Rat(1, 25), Rat(441, 10000), Whole(1), Rat(1, 0)} :
        classify(current_trend, current_vol)

NextRegime == ScoresClassified \/ UncheckedRegime

SpecRegime == Init /\ [][NextRegime]_vars

----------------------------------------------------------------------------
(* The properties *)

Max(S) == CHOOSE m \in S : \A x \in S : x <= m

\* The rolling 30-day drawdown as section 4.3 words it, compared with a
\* threshold thr (thousandths): some point of the window of the 30 newest
\* NAVs lies at or below its running maximum by that fraction.  With fewer
\* than 30 snapshots the drawdown is 0.0.
WindowDrawdownAtOrBelow(history, thr) ==
    IF Len(history) < 30 THEN 0 <= thr
    ELSE LET first == Len(history) - 29
         IN  \E j \in first..Len(history) :
                LET peak == Max({history[i].nav : i \in first..j})
                IN  /\ peak > 0
                    /\ (history[j].nav - peak) * 1000 <= thr * peak

Called(op) == ret.op = op

\* C1: whatever the history (hence the 30-day drawdown), check_breakers on a
\* portfolio whose daily_pnl_pct is at or below daily_loss_2 returns LEVEL_2.
C1_Level2HasPriority ==
    (Called("check_breakers")
        /\ ret.portfolio.daily_pnl_pct <= config.daily_loss_2)
    => ret.val = LEVEL_2

\* C1 witness: LEVEL_2 returned while the drawdown condition of LEVEL_3 holds too
C1_Witness ==
    /\ Called("check_breakers")
    /\ ret.portfolio.daily_pnl_pct <= config.daily_loss_2
    /\ ret.val = LEVEL_2
    /\ Len(portfolio_history) >= 30
    /\ WindowDrawdownAtOrBelow(portfolio_history, config.drawdown_30d)

\* C2: above daily_loss_2, check_breakers returns LEVEL_1 iff daily_pnl_pct is
\* at or below daily_loss_1, otherwise LEVEL_3 iff the rolling 30-day drawdown
\* is at or below drawdown_30d, otherwise NONE; equality triggers.
C2_FirstMatchClassifier ==
    (Called("check_breakers")
        /\ ret.portfolio.daily_pnl_pct > config.daily_loss_2)
    => ret.val =
         IF ret.portfolio.daily_pnl_pct <= config.daily_loss_1 THEN LEVEL_1
         ELSE IF WindowDrawdownAtOrBelow(portfolio_history, config.drawdown_30d)
              THEN LEVEL_3
         ELSE NONE

\* C2 witness: LEVEL_3 returned for a drawdown exactly equal to the threshold
C2_Witness ==
    /\ Called("check_breakers")
    /\ ret.val = LEVEL_3
    /\ ret.portfolio.daily_pnl_pct > config.daily_loss_1
    /\ WindowDrawdownAtOrBelow(portfolio_history, config.drawdown_30d)
    /\ ~WindowDrawdownAtOrBelow(portfolio_history, config.drawdown_30d - 1)

\* C3: the level returned does not depend on the stored current_breaker_level:
\* the same configuration, history and portfolio give the same level whatever
\* level was stored before, so a tick matching no condition returns NONE right
\* after LEVEL_2 or LEVEL_3.
C3_NoMemory ==
    Called("check_breakers")
    => \A stored \in CircuitBreakerLevel :
          BreakerLevel([self EXCEPT !.current_breaker_level = stored],
                       ret.portfolio) = ret.val

\* C3 witness: NONE returned by the call that follows a LEVEL_2 or LEVEL_3
C3_Witness ==
    /\ Called("check_breakers")
    /\ ret.before \in {LEVEL_2, LEVEL_3}
    /\ ret.val = NONE

\* C4: current_breaker_level is NONE after construction, every check_breakers
\* call stores the level it returns, no other operation changes the stored
\* level, and get_risk_summary reports the stored level.
C4_StoredLevelIsLastReturned ==
    /\ current_breaker_level = NONE
    /\ [][/\ IF ret'.op = "check_breakers"
             THEN current_breaker_level' = ret'.val
             ELSE current_breaker_level' = current_breaker_level
          /\ ret'.op = "get_risk_summary"
             => ret'.val.circuit_breaker_level = LevelValue(current_breaker_level)
       ]_vars

\* C4 witness: a summary reporting LEVEL_2 from an engine that has archived
\* snapshots, logged alerts and stored a correlation matrix
C4_Witness ==
    /\ Called("get_risk_summary")
    /\ ret.val.circuit_breaker_level = 2
    /\ current_breaker_level = LEVEL_2
    /\ risk_alerts # <<>>
    /\ portfolio_history # <<>>
    /\ ~correlation_matrix.empty

\* C5: after n update_portfolio_history calls the history is the last
\* min(n, 252) supplied snapshots in the order supplied; it never holds more
\* than 252, and the 253rd call evicts the oldest.
C5_HistoryIsNewestSupplied ==
    LET len == Len(portfolio_history)
    IN  /\ len = (IF updates < 252 THEN updates ELSE 252)
        /\ \A i \in 1..len : portfolio_history[i] = SnapshotAt(updates - len + i)

\* C5 witness: the 253rd call has evicted the first snapshot
C5_Witness ==
    /\ updates = 253
    /\ Len(portfolio_history) = 252
    /\ portfolio_history[1] = SnapshotAt(2)
    /\ portfolio_history[252] = SnapshotAt(253)

RECURSIVE TotalAbs(_)
\* the sum of |weight| over a positions mapping with whole weights
TotalAbs(positions) ==
    IF positions = <<>> THEN 0
    ELSE Abs(Head(positions).weight) + TotalAbs(Tail(positions))

RECURSIVE TotalAbsReturned(_)
\* the sum of |weight| over a returned mapping
TotalAbsReturned(adjusted) ==
    IF adjusted = <<>> THEN Whole(0)
    ELSE RAdd(RAbs(Head(adjusted).weight), TotalAbsReturned(Tail(adjusted)))

\* the returned mapping has the symbols of the input, and its weights are
\* the input weights times num/den
ScaledBy(adjusted, positions, num, den) ==
    /\ Len(adjusted) = Len(positions)
    /\ \A i \in 1..Len(positions) :
          /\ adjusted[i].symbol = positions[i].symbol
          /\ REq(adjusted[i].weight, Rat(positions[i].weight * num, den))

Applying(level) == Called("apply_circuit_breaker") /\ ret.level = level

\* C6: at LEVEL_2 a portfolio with gross exposure > 0 comes back with gross
\* exposure 0.25, every weight scaled by 0.25/gross; with gross 0 (empty
\* positions included) the positions come back unchanged.
C6_Level2FlattensToQuarter ==
    Applying(LEVEL_2)
    => LET positions == ret.portfolio.positions
           gross == TotalAbs(positions)
       IN  IF gross > 0
           THEN /\ ScaledBy(ret.val, positions, 250, gross)
                /\ REq(TotalAbsReturned(ret.val), Whole(250))
           ELSE ScaledBy(ret.val, positions, 1, 1)

\* C6 witness: a long/short book of two symbols flattened at LEVEL_2
C6_Witness ==
    /\ Applying(LEVEL_2)
    /\ Len(ret.portfolio.positions) = 2
    /\ ret.portfolio.positions[1].weight > 0
    /\ ret.portfolio.positions[2].weight < 0
    /\ REq(TotalAbsReturned(ret.val), Whole(250))

\* C7: LEVEL_1 returns 0.5 * weight and LEVEL_3 returns 0.25 * weight for
\* every symbol, over the symbols of the input.
C7_UniformScaling ==
    /\ Applying(LEVEL_1) => ScaledBy(ret.val, ret.portfolio.positions, 1, 2)
    /\ Applying(LEVEL_3) => ScaledBy(ret.val, ret.portfolio.positions, 1, 4)

\* C7 witness: LEVEL_3 applied to a book of two non-zero weights
C7_Witness ==
    /\ Applying(LEVEL_3)
    /\ Len(ret.portfolio.positions) = 2
    /\ \A i \in 1..2 : ret.portfolio.positions[i].weight # 0
    /\ REq(ret.val[1].weight, Rat(ret.portfolio.positions[1].weight, 4))

\* C8: with level NONE the returned mapping equals the input positions.
C8_NoneIsIdentity ==
    Applying(NONE) => ScaledBy(ret.val, ret.portfolio.positions, 1, 1)

\* C8 witness: NONE applied to a non-empty book with a non-zero weight
C8_Witness ==
    /\ Applying(NONE)
    /\ Len(ret.portfolio.positions) = 2
    /\ ret.portfolio.positions[1].weight # 0
    /\ REq(ret.val[1].weight, Whole(ret.portfolio.positions[1].weight))

SingleNameAlertsFor(alerts, symbol) ==
    {i \in 1..Len(alerts) :
        /\ alerts[i].metric = "single_name_concentration"
        /\ alerts[i].message[2] = symbol}

\* C10: check_limits returns a single_name_concentration alert for a symbol
\* iff |weight| > the single-name limit (a weight at the limit gives none);
\* the alert is RED iff |weight| > 1.2 * limit, else ORANGE, and always has
\* action_required set.
C10_SingleNameCheck ==
    Called("check_limits")
    => LET positions == ret.portfolio.positions
           limit == config.single_name_limit
       IN  /\ \A i \in 1..Len(positions) :
                LET weight == Abs(positions[i].weight)
                    found == SingleNameAlertsFor(ret.val, positions[i].symbol)
                IN  /\ Cardinality(found) = (IF weight > limit THEN 1 ELSE 0)
                    /\ \A a \in found :
                         /\ ret.val[a].level =
                              (IF 10 * weight > 12 * limit THEN RED ELSE ORANGE)
                         /\ ret.val[a].action_required
                         /\ ret.val[a].current_value = weight
            /\ \A a \in 1..Len(ret.val) :
                 ret.val[a].metric = "single_name_concentration"
                 => ret.val[a].message[2] \in SymbolsOf(positions)

\* C10 witness: one weight exactly at the limit without an alert, beside one
\* between the limit and 1.2 times the limit with an ORANGE alert
C10_Witness ==
    /\ Called("check_limits")
    /\ Len(ret.portfolio.positions) = 2
    /\ Abs(ret.portfolio.positions[1].weight) = config.single_name_limit
    /\ Abs(ret.portfolio.positions[2].weight) = 36
    /\ Len(ret.val) = 1
    /\ ret.val[1].level = ORANGE
    /\ ret.val[1].message[2] = ret.portfolio.positions[2].symbol

\* C9: apply_circuit_breaker changes nothing of the engine (configuration,
\* breaker level, alert log, history, correlation matrix) and leaves the
\* positions of the portfolio it was given as they were; only the returned
\* mapping carries the adjustment.
C9_ApplyIsPure ==
    [][ret'.op = "apply_circuit_breaker"
       => /\ UNCHANGED engine
          /\ ScaledBy(ret'.positions_after, ret'.portfolio.positions, 1, 1)]_vars

\* C9 witness: LEVEL_1 has halved a weight in the returned mapping, on an
\* engine with a non-trivial state, and the caller's weight is what it was
C9_Witness ==
    /\ Applying(LEVEL_1)
    /\ REq(ret.val[1].weight, Whole(30))
    /\ ret.portfolio.positions[1].weight = 60
    /\ REq(ret.positions_after[1].weight, Whole(60))
    /\ current_breaker_level # NONE
    /\ risk_alerts # <<>>
    /\ portfolio_history # <<>>
    /\ ~correlation_matrix.empty

RECURSIVE TotalSigned(_)
\* the signed sum of the weights of a positions mapping
TotalSigned(positions) ==
    IF positions = <<>> THEN 0
    ELSE Head(positions).weight + TotalSigned(Tail(positions))

AlertsOf(alerts, metric) == {i \in 1..Len(alerts) : alerts[i].metric = metric}

\* C11: check_limits returns exactly one gross_exposure alert iff the sum of
\* |weight| exceeds the gross limit (a sum at the limit gives none); the alert
\* is RED iff the sum exceeds 1.1 * limit, else ORANGE, with action_required.
C11_GrossExposureCheck ==
    Called("check_limits")
    => LET gross == TotalAbs(ret.portfolio.positions)
           limit == config.gross_limit
           found == AlertsOf(ret.val, "gross_exposure")
       IN  /\ Cardinality(found) = (IF gross > limit THEN 1 ELSE 0)
           /\ \A a \in found :
                /\ ret.val[a].level = (IF 10 * gross > 11 * limit THEN RED ELSE ORANGE)
                /\ ret.val[a].action_required
                /\ ret.val[a].current_value = gross
                /\ ret.val[a].limit_value = limit

\* C11 witness: a long/short book whose gross exposure is exactly 1.1 times
\* the limit, alerted ORANGE
C11_Witness ==
    /\ Called("check_limits")
    /\ Len(ret.portfolio.positions) = 2
    /\ ret.portfolio.positions[1].weight < 0
    /\ 10 * TotalAbs(ret.portfolio.positions) = 11 * config.gross_limit
    /\ \E a \in AlertsOf(ret.val, "gross_exposure") : ret.val[a].level = ORANGE

\* C12: check_limits returns exactly one net_exposure alert iff the absolute
\* value of the signed sum of weights exceeds the net limit, for a long bias
\* and for a short bias alike; the alert is ORANGE without action_required.
C12_NetExposureCheck ==
    Called("check_limits")
    => LET net == TotalSigned(ret.portfolio.positions)
           limit == config.net_limit
           found == AlertsOf(ret.val, "net_exposure")
       IN  /\ Cardinality(found) = (IF net > limit \/ -net > limit THEN 1 ELSE 0)
           /\ \A a \in found :
                /\ ret.val[a].level = ORANGE
                /\ ~ret.val[a].action_required
                /\ ret.val[a].current_value = Abs(net)
                /\ ret.val[a].limit_value = limit

\* C12 witness: a short-biased book over the net limit, alerted ORANGE, in a
\* call that returns RED single-name alerts as well
C12_Witness ==
    /\ Called("check_limits")
    /\ TotalSigned(ret.portfolio.positions) < -config.net_limit
    /\ \E a \in AlertsOf(ret.val, "net_exposure") :
          ret.val[a].level = ORANGE /\ ~ret.val[a].action_required
    /\ \E a \in AlertsOf(ret.val, "single_name_concentration") :
          ret.val[a].level = RED

\* The number of alerts a breach of each kind calls for, each decided from
\* its own quantity alone
BreachingSymbols(positions, limit) ==
    Cardinality({i \in 1..Len(positions) : Abs(positions[i].weight) > limit})

GrossBreach(positions, limit) == IF TotalAbs(positions) > limit THEN 1 ELSE 0

NetBreach(positions, limit) ==
    IF TotalSigned(positions) > limit \/ -TotalSigned(positions) > limit
    THEN 1 ELSE 0

CorrelationBreach(matrix, threshold) ==
    IF /\ ~matrix.empty
       /\ \E i \in 1..Len(matrix.cells) : AbsExceeds(matrix.cells[i], threshold)
    THEN 1 ELSE 0

Count(alerts, metric) == Cardinality(AlertsOf(alerts, metric))

\* C13: the list one check_limits call returns holds one alert per breaching
\* symbol and one per breached aggregate check (gross, net, VaR, correlation),
\* whatever else is breached in the same call; its length is the sum.
C13_NoSuppression ==
    (Called("check_limits") /\ ~ret.raised)
    => LET positions == ret.portfolio.positions
           var == IF RLess(Thousandths(20), calculate_var(self).val) THEN 1 ELSE 0
           single == BreachingSymbols(positions, config.single_name_limit)
           gross == GrossBreach(positions, config.gross_limit)
           net == NetBreach(positions, config.net_limit)
           corr == CorrelationBreach(correlation_matrix, config.correlation_threshold)
       IN  /\ Count(ret.val, "single_name_concentration") = single
           /\ Count(ret.val, "gross_exposure") = gross
           /\ Count(ret.val, "net_exposure") = net
           /\ Count(ret.val, "value_at_risk") = var
           /\ Count(ret.val, "strategy_correlation") = corr
           /\ Len(ret.val) = single + gross + net + var + corr

\* C13 witness: one call returning two single-name alerts and a gross, a
\* net, a VaR and a correlation alert
C13_Witness ==
    /\ Called("check_limits")
    /\ Len(ret.val) = 6
    /\ Count(ret.val, "single_name_concentration") = 2
    /\ Count(ret.val, "gross_exposure") = 1
    /\ Count(ret.val, "net_exposure") = 1
    /\ Count(ret.val, "value_at_risk") = 1
    /\ Count(ret.val, "strategy_correlation") = 1

\* C20: with fewer than 30 snapshots in the history calculate_var returns
\* exactly 0.0, and check_limits returns no VaR alert while the single-name,
\* gross, net and correlation checks return theirs.
C20_ShortHistoryVarIsZero ==
    Len(portfolio_history) < 30
    => /\ Called("calculate_var") => (~ret.raised /\ ret.val = Whole(0))
       /\ Called("check_limits")
          => LET positions == ret.portfolio.positions
             IN  /\ ~ret.raised
                 /\ Count(ret.val, "value_at_risk") = 0
                 /\ Count(ret.val, "single_name_concentration")
                      = BreachingSymbols(positions, config.single_name_limit)
                 /\ Count(ret.val, "gross_exposure")
                      = GrossBreach(positions, config.gross_limit)
                 /\ Count(ret.val, "net_exposure")
                      = NetBreach(positions, config.net_limit)
                 /\ Count(ret.val, "strategy_correlation")
                      = CorrelationBreach(correlation_matrix,
                                          config.correlation_threshold)

Falls(history) ==
    Cardinality({i \in 2..Len(history) : history[i].nav < history[i - 1].nav})

\* C20 witness: 29 snapshots with two falls of 12% among them, checked with
\* a book that breaches the single-name, gross and net limits: those alerts
\* and the correlation alert are returned, a VaR alert is not
C20_Witness ==
    /\ Called("check_limits")
    /\ Len(portfolio_history) = 29
    /\ Falls(portfolio_history) = 2
    /\ Count(ret.val, "value_at_risk") = 0
    /\ Count(ret.val, "single_name_concentration") = 2
    /\ Count(ret.val, "gross_exposure") = 1
    /\ Count(ret.val, "net_exposure") = 1
    /\ Count(ret.val, "strategy_correlation") = 1

\* C16 as claimed: after check_limits(p) or check_breakers(p) the snapshot p
\* is the newest entry of the history.
C16_CheckedSnapshotIsNewest ==
    (Called("check_limits") \/ Called("check_breakers"))
    => /\ portfolio_history # <<>>
       /\ portfolio_history[Len(portfolio_history)] = ret.portfolio

\* What the checks return is decided by the history as it stands
ChecksReadHistory ==
    /\ (Called("check_breakers")
          /\ ret.portfolio.daily_pnl_pct > config.daily_loss_1)
       => ret.val =
            (IF WindowDrawdownAtOrBelow(portfolio_history, config.drawdown_30d)
             THEN LEVEL_3 ELSE NONE)
    /\ Called("check_limits")
       => (Count(ret.val, "value_at_risk") = 1
             <=> RLess(Thousandths(20), calculate_var(self).val))

\* C16 amended: check_limits(p) and check_breakers(p) do not archive p; they
\* leave the history as it is, and the drawdown and the VaR they use are
\* those of that history, which holds p only if the caller archived it.
C16_ChecksReadArchivedHistory ==
    /\ []ChecksReadHistory
    /\ [][ret'.op \in {"check_limits", "check_breakers"}
            => portfolio_history' = portfolio_history]_vars

\* C16 witness: LEVEL_3 returned for the drawdown of 30 archived snapshots,
\* none of which is the snapshot that was checked
C16_Witness ==
    /\ Called("check_breakers")
    /\ ret.val = LEVEL_3
    /\ Len(portfolio_history) >= 30
    /\ \A i \in 1..Len(portfolio_history) : portfolio_history[i] # ret.portfolio

IsPrefix(s, t) == Len(s) <= Len(t) /\ SubSeq(t, 1, Len(s)) = s

\* C14: a check_limits call appends exactly the alerts it returns, in their
\* order, to the alert log, and no step of any operation removes or changes
\* an entry: the log before a step is a prefix of the log after it.
C14_LogIsAppendOnly ==
    [][/\ IsPrefix(risk_alerts, risk_alerts')
       /\ (ret'.op = "check_limits" /\ clock' = clock)
          => risk_alerts' = risk_alerts \o ret'.val]_vars

\* C14 witness: a call whose alert went behind an older alert in the log
C14_Witness ==
    /\ Called("check_limits")
    /\ Len(ret.val) = 1
    /\ Len(risk_alerts) = 2
    /\ risk_alerts[2] = ret.val[1]
    /\ risk_alerts[1].timestamp < risk_alerts[2].timestamp

\* an alert without its timestamp
Untimed(alert) ==
    [level |-> alert.level, message |-> alert.message, metric |-> alert.metric,
     current_value |-> alert.current_value, limit_value |-> alert.limit_value,
     action_required |-> alert.action_required]

UntimedList(alerts) == [i \in 1..Len(alerts) |-> Untimed(alerts[i])]

\* C15 as claimed: a check_limits call that follows a check_limits call on
\* the same portfolio, with no other operation in between, returns the
\* identical list of alerts.
C15_BitIdentical ==
    [][(ret.op = "check_limits" /\ ret'.op = "check_limits"
          /\ ret'.portfolio = ret.portfolio)
       => ret'.val = ret.val]_vars

\* C15 amended: the two lists have the same alerts in the same order, equal
\* in every field but the timestamp, which is the time of each call.
C15_IdenticalButTimestamps ==
    [][(ret.op = "check_limits" /\ ret'.op = "check_limits"
          /\ ret'.portfolio = ret.portfolio)
       => UntimedList(ret'.val) = UntimedList(ret.val)]_vars

\* C15 witness: the second of two calls on the same portfolio has returned
\* the alert of the first under a later timestamp
C15_Witness ==
    /\ Called("check_limits")
    /\ Len(ret.val) = 1
    /\ Len(risk_alerts) = 2
    /\ Untimed(risk_alerts[1]) = Untimed(ret.val[1])
    /\ risk_alerts[1].timestamp # ret.val[1].timestamp

\* C17: only update_portfolio_history changes the history: every step of
\* check_limits, check_breakers, calculate_var, apply_circuit_breaker,
\* update_correlation_matrix and get_risk_summary leaves its entries and
\* their order as they were.
C17_OnlyUpdateChangesHistory ==
    [][/\ ret'.op \in {"check_limits", "check_breakers", "calculate_var",
                       "apply_circuit_breaker", "update_correlation_matrix",
                       "get_risk_summary"}
          => portfolio_history' = portfolio_history
       /\ portfolio_history' # portfolio_history
          => ret'.op = "update_portfolio_history"]_vars

\* C17 witness: calculate_var has run on an engine that holds two snapshots,
\* logged alerts and a correlation matrix
C17_Witness ==
    /\ Called("calculate_var")
    /\ Len(portfolio_history) = 2
    /\ portfolio_history[1].timestamp < portfolio_history[2].timestamp
    /\ risk_alerts # <<>>
    /\ ~correlation_matrix.empty

\* C18: check_limits, check_breakers and detect_regime always return, also on
\* an engine built from an unusable configuration, over a history with zero
\* NAVs (NaN and infinite returns and drawdowns), with a correlation matrix of
\* NaNs and on broken price series: check_limits returns a list of alerts
\* (with the single-name alert of an oversized position in it), check_breakers
\* a level, detect_regime a label; detect_regime leaves the engine as it was
\* and classifies a good series right after a broken one.
C18_ReturnsNormally ==
    /\ ret.op \in {"check_limits", "check_breakers", "detect_regime"}
          => ~ret.raised
    /\ Called("check_limits")
          => /\ \A i \in 1..Len(ret.val) :
                   ret.val[i].level \in {GREEN, YELLOW, ORANGE, RED}
             /\ ret.portfolio.positions = <<Item("AAA", 60)>>
                   => AlertsOf(ret.val, "single_name_concentration") # {}
    /\ Called("check_breakers") => ret.val \in CircuitBreakerLevel
    /\ Called("detect_regime") => ret.val \in Regimes \cup {"UNKNOWN"}

ValidConfig(cfg) ==
    /\ cfg.single_name_limit > 0
    /\ cfg.sector_limit > 0
    /\ cfg.gross_limit > 0
    /\ cfg.net_limit > 0
    /\ cfg.daily_loss_1 < 0
    /\ cfg.daily_loss_2 < 0
    /\ cfg.drawdown_30d < 0

\* C19: an engine that evaluates a portfolio has a valid configuration, a
\* constructor call with an invalid one having raised.
C19_ConfigValidated ==
    ret.op \in {"check_limits", "check_breakers"} => ValidConfig(config)

\* C21: check_limits returns a value_at_risk alert exactly when the VaR of
\* the history is above 0.02; there is one such alert, its level is RED when
\* the VaR is above 0.03 and ORANGE otherwise, it asks for action and carries
\* the VaR and the limit.
C21_VarLimitCheck ==
    (Called("check_limits") /\ ~calculate_var(self).raised) =>
        LET var == calculate_var(self).val
            found == AlertsOf(ret.val, "value_at_risk")
        IN  /\ (found # {}) <=> RLess(Rat(2, 100), var)
            /\ Cardinality(found) <= 1
            /\ \A i \in found :
                  /\ ret.val[i].level =
                        (IF RLess(Rat(3, 100), var) THEN RED ELSE ORANGE)
                  /\ ret.val[i].action_required
                  /\ ret.val[i].current_value = var
                  /\ ret.val[i].limit_value = Rat(2, 100)

\* C21 witness: a VaR of exactly 0.03 has been reported at level ORANGE
C21_Witness ==
    /\ Called("check_limits")
    /\ calculate_var(self) = Returned(Rat(3, 100))
    /\ Len(ret.val) = 1
    /\ ret.val[1].metric = "value_at_risk"
    /\ ret.val[1].level = ORANGE

\* C22: over a history of positive NAVs calculate_var returns a value
\* between 0 and 1.
C22_VarInUnitInterval ==
    (/\ Called("calculate_var")
     /\ \A i \in 1..Len(portfolio_history) : portfolio_history[i].nav > 0)
    => /\ ~ret.raised
       /\ RLeq(Whole(0), ret.val)
       /\ RLeq(ret.val, Whole(1))

\* the change from snapshot i to snapshot j of the history, as a fraction
\* of the NAV of snapshot i
Change(history, i, j) ==
    Div(history[j].nav - history[i].nav, history[i].nav)

\* C23: the rolling drawdown of the history is 0.0 below 30 snapshots; over
\* positive NAVs it is at most 0 and it is the deepest fall from an earlier
\* to a later snapshot among the 30 newest ones, so that a peak older than
\* those takes no part in it.
C23_RollingDrawdown ==
    LET n == Len(portfolio_history)
        dd == calculate_30day_drawdown(portfolio_history)
        positive == \A i \in 1..n : portfolio_history[i].nav > 0
        window == (n - 29)..n
    IN  /\ n < 30 => dd = Whole(0)
        /\ positive => RLeq(dd, Whole(0))
        /\ (positive /\ n >= 30) =>
              /\ \A i \in window : \A j \in i..n :
                    RLeq(dd, Change(portfolio_history, i, j))
              /\ \E i \in window : \E j \in i..n :
                    dd = Change(portfolio_history, i, j)

\* C23 witness: the breakers were checked over 31 snapshots whose first is a
\* peak of 100 above 30 snapshots of 88, and the drawdown is 0.0
C23_Witness ==
    /\ Called("check_breakers")
    /\ Len(portfolio_history) = 31
    /\ portfolio_history[1].nav = 100
    /\ \A i \in 2..31 : portfolio_history[i].nav = 88
    /\ calculate_30day_drawdown(portfolio_history) = Whole(0)
    /\ ret.val = NONE

\* C27: with a negative drawdown threshold the breaker level is never
\* LEVEL_3, stored or returned, while the history holds fewer than 30
\* snapshots.
C27_NoLevel3BeforeThirtySnapshots ==
    (config.drawdown_30d < 0 /\ Len(portfolio_history) < 30) =>
        /\ current_breaker_level # LEVEL_3
        /\ Called("check_breakers") => ret.val # LEVEL_3

\* C27 witness: the check that follows the 30th update_portfolio_history
\* call has returned LEVEL_3
C27_Witness ==
    /\ Called("check_breakers")
    /\ updates = 30
    /\ Len(portfolio_history) = 30
    /\ config.drawdown_30d < 0
    /\ ret.val = LEVEL_3
    /\ ret.before # LEVEL_3

\* C24: update_correlation_matrix returns without raising; a frame it can
\* correlate leaves the stored matrix with one cell per pair of the frame's
\* columns and nothing of the matrix before, and an argument it cannot
\* correlate leaves the stored matrix as it was.
C24_MatrixReplacedOrKept ==
    [][ret'.op = "update_correlation_matrix" =>
         LET given == ret'.strategy_returns
         IN  /\ ~ret'.raised
             /\ given.valid =>
                   /\ correlation_matrix' = Corr(given)
                   /\ Len(correlation_matrix'.cells)
                         = Len(given.columns) * Len(given.columns)
             /\ ~given.valid => correlation_matrix' = correlation_matrix]_vars

\* C24 witness: a failed update has left a matrix of three strategies in place
C24_Witness ==
    /\ Called("update_correlation_matrix")
    /\ ~ret.strategy_returns.valid
    /\ ~ret.raised
    /\ Len(correlation_matrix.cells) = 9

\* C25: detect_regime answers UNKNOWN for a price series that does not fill
\* the 20-return window and for one whose latest window has no value.
C25_UnknownWithoutScores ==
    (/\ Called("detect_regime")
     /\ ret.market_data.valid
     /\ ret.market_data.has_close
     /\ \/ Len(ret.market_data.close) < RegimeWindow + 1
        \/ LastWindow(Returns(ret.market_data.close)).nan)
    => ret.val = "UNKNOWN"

\* the strategies of a stored matrix
Strategies(matrix) ==
    {k \in 1..Len(matrix.cells) : k * k <= Len(matrix.cells)}

\* the cell of strategies a and b
Cell(matrix, a, b) ==
    matrix.cells[(a - 1) * Cardinality(Strategies(matrix)) + b]

\* C28: check_limits returns a strategy_correlation alert exactly when the
\* stored matrix is not empty and two distinct strategies correlate beyond
\* the threshold.
C28_FlagsDistinctStrategies ==
    Called("check_limits") =>
        (AlertsOf(ret.val, "strategy_correlation") # {}
         <=> /\ ~correlation_matrix.empty
             /\ \E a, b \in Strategies(correlation_matrix) :
                   /\ a # b
                   /\ AbsExceeds(Cell(correlation_matrix, a, b),
                                 config.correlation_threshold))

\* C29: each within_limits flag of the summary of a portfolio is false
\* exactly when check_limits on that portfolio returns an alert of the
\* matching metric; a value at its limit is within the limit for both.
C29_FlagsAgreeWithAlerts ==
    (Called("get_risk_summary") /\ ~ret.raised) =>
        LET alerts == Alerts(self, ret.portfolio, clock).val
            within == ret.val.within_limits
        IN  /\ within.gross <=> AlertsOf(alerts, "gross_exposure") = {}
            /\ within.net <=> AlertsOf(alerts, "net_exposure") = {}
            /\ within.single_name
                  <=> AlertsOf(alerts, "single_name_concentration") = {}

\* C29 witness: the summary of a book whose gross exposure is at the gross
\* limit and which holds a position beyond the single-name limit
C29_Witness ==
    /\ Called("get_risk_summary")
    /\ ~ret.raised
    /\ ret.val.gross_exposure = config.gross_limit
    /\ ret.val.within_limits
          = [gross |-> TRUE, net |-> TRUE, single_name |-> FALSE]

\* C26: over two scores that are numbers or infinities the label is one of
\* the four regimes, a TREND one exactly when the trend score is above 0.1
\* and a LOW_VOL one exactly when the volatility score is below 0.20: a
\* trend of exactly 0.1 is CHOP and a volatility of exactly 0.20 is HIGH_VOL.
C26_ClassificationTable ==
    (Called("classify") /\ ~IsNaN(ret.current_trend) /\ ~IsNaN(ret.current_vol))
    => /\ ret.val \in Regimes
       /\ ret.val \in {"TREND_LOW_VOL", "TREND_HIGH_VOL"}
             <=> ret.current_trend.n * 100 > ret.current_trend.d
       /\ ret.val \in {"TREND_LOW_VOL", "CHOP_LOW_VOL"}
             <=> ret.current_vol.n * 25 < ret.current_vol.d
       /\ ret.current_trend = Rat(1, 100)
             => ret.val \in {"CHOP_LOW_VOL", "CHOP_HIGH_VOL"}
       /\ ret.current_vol = Rat(1, 25)
             => ret.val \in {"TREND_HIGH_VOL", "CHOP_HIGH_VOL"}

\* C26 witness: scores of exactly 0.1 and 0.20 have been classified as
\* CHOP_HIGH_VOL
C26_Witness ==
    /\ Called("classify")
    /\ ret.current_trend = Rat(1, 100)
    /\ ret.current_vol = Rat(1, 25)
    /\ ret.val = "CHOP_HIGH_VOL"

\* the history holds the newest recorded snapshots, at most 252 of them, in
\* the order of their recording and none missing
HoldsNewest ==
    /\ Len(portfolio_history) = (IF updates < 252 THEN updates ELSE 252)
    /\ \A i \in 1..Len(portfolio_history) :
          portfolio_history[i]
            = SnapshotAt(updates - Len(portfolio_history) + i)

\* C30: when the calls of update_portfolio_history are serialised, then
\* between calls, where a reader reads, the history never holds more than 252
\* entries and no recorded snapshot is missing; two callers that are not
\* serialised reach the states of the witness.
C30_SerialisedWritersAreSafe ==
    (calls.serialised /\ Quiet) => HoldsNewest

\* C30 witness: two callers that were not serialised have both returned, and
\* the snapshot recorded last is not in the history
C30_Witness ==
    /\ ~calls.serialised
    /\ Quiet
    /\ updates > 252
    /\ Len(portfolio_history) = 252
    /\ \A i \in 1..Len(portfolio_history) :
          portfolio_history[i] # SnapshotAt(updates)

====
